---- MODULE Spec2Model ----
(***************************************************************************)
(* Model of addReferencesToInstanceNames                                   *)
(* (packages/adapter-components/src/references/referenced_instance_name.ts)*)
(*                                                                         *)
(* Strings are modelled as sequences of tokens: a token is either a word   *)
(* of alphanumeric characters ("good", "222") or one non-alphanumeric      *)
(* character ("_", " ", "[", "@").  Two strings built by joining parts     *)
(* with separators are equal exactly when their token sequences are.       *)
(***************************************************************************)
EXTENDS Integers, Sequences, FiniteSets, TLC

VARIABLES
  heap,        \* object identity -> element object (objects are mutated in place)
  elements,    \* the elements array given to the function: sequence of object ids
  config,      \* transformationConfigByType and transformationDefaultConfig
  graph,       \* the DAG: node key (full name) -> set of keys it depends on
  resolved,    \* keys of the graph nodes the evaluation has already visited
  status,      \* "start", "eval", "done", "failed" (a throw), "cycle"
  records,     \* history: one entry per replacement instance constructed
  heap0,       \* history: the heap at the time of the call
  elements0,   \* history: the array at the time of the call
  previous,    \* history: the outcome of the call before this one, if any
  tasks,       \* the callbacks of the evaluation that wait at the await of line 129
  root,        \* walkOnElement: the element given to the walk
  todo,        \* walkOnElement: the calls of run still to make, the next one first
  walk,        \* walkOnElement: "idle", "running", "thrown", "returned", "raised"
  thrown,      \* walkOnElement: what was thrown
  visited      \* history: the calls of func made, with what func answered

nameVars == <<heap, elements, config, graph, resolved, status, records, heap0, elements0,
              previous, tasks>>

walkVars == <<root, todo, walk, thrown, visited>>

vars == <<nameVars, walkVars, tasks>>

(***************************************************************************)
(* Bounds of the generated inputs.                                         *)
(***************************************************************************)
NumInst == 3

\* const ID_SEPARATOR = '__'
ID_SEPARATOR == <<"_", "_">>

NoLink == 0
ADAPTER == "salto"

(***************************************************************************)
(* Values of a value bag.                                                  *)
(***************************************************************************)
Undef == [k |-> "undefined"]
Str(t) == [k |-> "str", s |-> t]
Arr(items) == [k |-> "arr", items |-> items]

\* new ElemID(adapter, typeName, idType, name)
ElemID(adapter, typeName, idType, name) ==
  [adapter |-> adapter, typeName |-> typeName, idType |-> idType, name |-> name]

TypeID(typeName) == ElemID(ADAPTER, typeName, "type", <<>>)
InstID(typeName, name) == ElemID(ADAPTER, typeName, "instance", name)

\* elemID.getFullName(): adapter.typeName for a type,
\* adapter.typeName.instance.name for an instance
getFullName(id) ==
  IF id.idType = "type" THEN <<id.adapter, id.typeName>>
  ELSE <<id.adapter, id.typeName, id.idType>> \o id.name

\* new ReferenceExpression(elemID, value): the target identifier and, when
\* resolved, the link to the target object
Ref(id, link) == [k |-> "ref", id |-> id, link |-> link]

isReferenceExpression(v) == v.k = "ref"

\* isInstanceElement(x), for x the resolved value of a reference
isInstanceLink(h, link) == link # NoLink /\ h[link].kind = "instance"

\* _.get(bag, field)
Get(bag, field) == IF field \in DOMAIN bag THEN bag[field] ELSE Undef

(***************************************************************************)
(* Strings                                                                 *)
(***************************************************************************)
RECURSIVE Join(_, _)
\* parts.join(sep), parts a sequence of token sequences
Join(parts, sep) ==
  IF parts = <<>> THEN <<>>
  ELSE IF Len(parts) = 1 THEN parts[1]
  ELSE parts[1] \o sep \o Join(Tail(parts), sep)

\* String(value)
StringOf(v) ==
  CASE v.k = "str" -> v.s
    [] v.k = "undefined" -> <<"undefined">>
    [] v.k = "ref" -> <<"[", "object", " ", "Object", "]">>
    [] v.k = "arr" -> <<"[", "array", "]">>

\* the characters that are not alphanumeric, each with the letter that
\* encodes it in the suffix of a sanitized name
SpecialCode ==
  [c \in {"_", " ", "[", "]", "@"} |->
     CASE c = "_" -> "u" [] c = " " -> "s" [] c = "[" -> "i"
       [] c = "]" -> "I" [] c = "@" -> "t"]

isSpecial(tok) == tok \in DOMAIN SpecialCode

RECURSIVE SpecialCodes(_)
SpecialCodes(name) ==
  IF name = <<>> THEN <<>>
  ELSE (IF isSpecial(Head(name)) THEN <<SpecialCode[Head(name)]>> ELSE <<>>)
       \o SpecialCodes(Tail(name))

\* naclCase(name): every special character becomes '_'; when some replaced
\* character was not itself '_', the codes of the replaced characters are
\* appended after '@'
naclCase(name) ==
  LET clean == [i \in DOMAIN name |-> IF isSpecial(name[i]) THEN "_" ELSE name[i]]
      codes == SpecialCodes(name)
  IN IF \A i \in DOMAIN codes : codes[i] = "u" THEN clean
     ELSE clean \o <<"@">> \o codes

\* joinInstanceNameParts(nameParts, defaultName)
joinInstanceNameParts(nameParts, defaultName) ==
  IF nameParts = <<>> THEN defaultName
  ELSE Join([i \in DOMAIN nameParts |-> StringOf(nameParts[i])], <<"_">>)

(***************************************************************************)
(* Identifier field designators: <<"&", "folder_id">> is '&folder_id'.     *)
(***************************************************************************)
isReferencedIdField(fieldName) == fieldName # <<>> /\ Head(fieldName) = "&"

dereferenceFieldName(fieldName) ==
  IF isReferencedIdField(fieldName) THEN Tail(fieldName) ELSE fieldName

\* _.get(instance.value, path) for a path of one key
GetPath(bag, path) == IF Len(path) = 1 THEN Get(bag, path[1]) ELSE Undef

\* hasReferencedIdFields without the test for the mark
hasSomeIdFields(idFields) ==
  \E i \in DOMAIN idFields : TRUE

\* const hasReferencedIdFields = idFields.some(field => isReferencedIdField(field))
hasReferencedIdFields(idFields) ==
  \E i \in DOMAIN idFields : isReferencedIdField(idFields[i])

(***************************************************************************)
(* Configuration                                                           *)
(***************************************************************************)
\* transformationConfigByType[typeName]
ConfigOfType(cfg, typeName) ==
  IF typeName \in DOMAIN cfg.byType THEN cfg.byType[typeName] ELSE Undef

\* getConfigWithDefault(typeSpecificConfig, defaultConfig)
getConfigWithDefault(typeSpecificConfig, defaultConfig) ==
  IF typeSpecificConfig = Undef THEN defaultConfig
  ELSE [f \in (DOMAIN typeSpecificConfig) \cup (DOMAIN defaultConfig) |->
          IF f \in DOMAIN typeSpecificConfig THEN typeSpecificConfig[f]
          ELSE defaultConfig[f]]

\* instancesToIdFields[...].idFields
IdFieldsOf(cfg, typeName) ==
  getConfigWithDefault(ConfigOfType(cfg, typeName), cfg.default).idFields

(***************************************************************************)
(* Elements.  The identifier of an object never changes; the value bag and *)
(* the annotations of an object are mutated in place.                      *)
(***************************************************************************)
\* new ObjectType({ elemID, annotations })
ObjectType(elemID, annotations) ==
  [kind |-> "type", elemID |-> elemID, annotations |-> annotations]

\* new InstanceElement(name, refType, value, path, annotations)
InstanceElement(name, refType, value, path, annotations) ==
  [kind |-> "instance",
   elemID |-> ElemID(refType.adapter, refType.typeName, "instance", name),
   value |-> value, path |-> path, annotations |-> annotations]

isInstanceElement(obj) == obj.kind = "instance"

\* getParents(instance): the _parent annotation as an array
getParents(instance) ==
  LET p == Get(instance.annotations, "_parent")
  IN IF p = Undef THEN <<>> ELSE IF p.k = "arr" THEN p.items ELSE <<p>>

\* getInstanceFilePath without fileNameFields: the file is named after the instance
getInstanceFilePath(naclName, typeName, adapterName) ==
  <<adapterName, "Records", typeName, naclName>>

(***************************************************************************)
(* References                                                              *)
(***************************************************************************)
\* a reference expression whose target identifier is the identifier sourceElemId
\* (every identifier of the model is a top-level one)
isReferenceOfElement(v, sourceElemId) ==
  isReferenceExpression(v) /\ v.id = sourceElemId

\* getUpdatedReference(referenceExpression, targetElemId): only the target
\* identifier is new; the resolved value is the one the reference had
getUpdatedReference(referenceExpression, targetElemId) ==
  Ref(targetElemId, referenceExpression.link)

RECURSIVE TransformValue(_, _, _)
TransformValue(v, sourceElemId, targetElemId) ==
  IF isReferenceOfElement(v, sourceElemId)
    THEN getUpdatedReference(v, targetElemId)
  ELSE IF v.k = "arr"
    THEN Arr([i \in DOMAIN v.items |->
                TransformValue(v.items[i], sourceElemId, targetElemId)])
  ELSE v

\* updateElementReferences(element, sourceElemId, targetElemId): a copy of the
\* element in which the references to sourceElemId are updated
updateElementReferences(element, sourceElemId, targetElemId) ==
  [element EXCEPT
     !.value = [f \in DOMAIN @ |-> TransformValue(@[f], sourceElemId, targetElemId)],
     !.annotations =
        [f \in DOMAIN @ |-> TransformValue(@[f], sourceElemId, targetElemId)]]

RECURSIVE RefsUnder(_, _, _)
\* the walk below one value: a matching reference is collected and not entered
RefsUnder(v, path, id) ==
  IF isReferenceOfElement(v, id) THEN {[path |-> path, value |-> v]}
  ELSE IF v.k = "arr"
    THEN UNION {RefsUnder(v.items[i], Append(path, i), id) : i \in DOMAIN v.items}
  ELSE {}

\* getReferences(element, id): the references to id in the annotations and in
\* the value bag of an instance, each with the path where it was found
getReferences(element, id) ==
  UNION {RefsUnder(element.annotations[f], <<"annotations", f>>, id) :
           f \in DOMAIN element.annotations}
  \cup
  (IF isInstanceElement(element)
     THEN UNION {RefsUnder(element.value[f], <<"value", f>>, id) :
                   f \in DOMAIN element.value}
     ELSE {})

RECURSIVE SetUnder(_, _, _)
SetUnder(v, rest, new) ==
  IF rest = <<>> THEN new
  ELSE Arr([v.items EXCEPT ![rest[1]] = SetUnder(@, Tail(rest), new)])

\* setPath(element, path, value)
setPath(element, path, value) ==
  [element EXCEPT ![path[1]][path[2]] =
     SetUnder(@, SubSeq(path, 3, Len(path)), value)]

RECURSIVE UpdateRefsAtField(_, _, _)
\* the loop over refs with setPath at the field that holds the reference,
\* not at the path of the reference
UpdateRefsAtField(element, refs, newElemId) ==
  IF refs = {} THEN element
  ELSE LET ref == CHOOSE r \in refs : TRUE
       IN UpdateRefsAtField(setPath(element, SubSeq(ref.path, 1, 2),
                                    getUpdatedReference(ref.value, newElemId)),
                            refs \ {ref}, newElemId)

RECURSIVE UpdateRefs(_, _, _)
\* refs.forEach(ref => setPath(element, ref.path, getUpdatedReference(ref.value, newElemId)))
UpdateRefs(element, refs, newElemId) ==
  IF refs = {} THEN element
  ELSE LET ref == CHOOSE r \in refs : TRUE
       IN UpdateRefs(setPath(element, ref.path,
                             getUpdatedReference(ref.value, newElemId)),
                     refs \ {ref}, newElemId)

(***************************************************************************)
(* addReferencesToInstanceNames: the instances and the dependency graph    *)
(***************************************************************************)
\* const instances = elements.filter(isInstanceElement), taken once at the call
instances == SelectSeq(elements0, LAMBDA o : isInstanceElement(heap0[o]))

\* instancesToIdFields: each instance object with the idFields of its type
instancesToIdFields ==
  LET insts == instances
  IN [i \in DOMAIN insts |->
        [instance |-> insts[i],
         idFields |-> IdFieldsOf(config, heap0[insts[i]].elemID.typeName)]]

\* getReferencedInstances reading the field under its marked name
getReferencedInstancesMarked(h, instance, idFields) ==
  LET marked == SelectSeq(idFields, isReferencedIdField)
      fieldValue(i) == GetPath(instance.value, marked[i])
  IN { getFullName(fieldValue(i).id) :
         i \in { j \in DOMAIN marked :
                   /\ isReferenceExpression(fieldValue(j))
                   /\ isInstanceLink(h, fieldValue(j).link) } }

\* getReferencedInstances(): the full names of the instances that the
\* reference-marked idFields of the instance point at
getReferencedInstances(h, instance, idFields) ==
  LET marked == SelectSeq(idFields, isReferencedIdField)
      fieldValue(i) == GetPath(instance.value, dereferenceFieldName(marked[i]))
  IN { getFullName(fieldValue(i).id) :
         i \in { j \in DOMAIN marked :
                   /\ isReferenceExpression(fieldValue(j))
                   /\ isInstanceLink(h, fieldValue(j).link) } }

\* graph.addNode(id, dependsOn, data) for every instance: a node for the id
\* and for each id it depends on, an edge to each of those
GraphOf(h) ==
  LET itf == instancesToIdFields
      I == DOMAIN itf
      key == [i \in I |-> getFullName(h[itf[i].instance].elemID)]
      deps == [i \in I |-> getReferencedInstances(h, h[itf[i].instance], itf[i].idFields)]
      nodes == {key[i] : i \in I} \cup UNION {deps[i] : i \in I}
  IN [n \in nodes |-> UNION {deps[i] : i \in {j \in I : key[j] = n}}]

\* graph.evaluationOrder(): a node may come next when every node it depends
\* on has come before
FreeNodes == {n \in DOMAIN graph \ resolved : graph[n] \subseteq resolved}

\* a find that takes the first instance whose idFields have a
\* reference-marked field, whatever the node is
FindInstanceIdFieldsOfAny(graphNode) ==
  LET itf == instancesToIdFields
      hits == {i \in DOMAIN itf : hasReferencedIdFields(itf[i].idFields)}
  IN IF hits = {} THEN Undef
     ELSE itf[CHOOSE i \in hits : \A j \in hits : i <= j]

\* instancesToIdFields.find(instanceF => instanceF.instance.elemID.getFullName() === graphNode)
FindInstanceIdFields(graphNode) ==
  LET itf == instancesToIdFields
      hits == {i \in DOMAIN itf : getFullName(heap0[itf[i].instance].elemID) = graphNode}
  IN IF hits = {} THEN Undef
     ELSE itf[CHOOSE i \in hits : \A j \in hits : i <= j]

\* the callback of the evaluation renames the node: it has an instance and
\* its idFields have a reference-marked field
NeedsRename(graphNode) ==
  LET f == FindInstanceIdFields(graphNode)
  IN f # Undef /\ hasReferencedIdFields(f.idFields)

(***************************************************************************)
(* addReferencesToInstanceNames: the computation of the new name           *)
(***************************************************************************)
\* newNameParts with the name of the resolved value in place of the name in
\* the reference's identifier
newNamePartsOfValue(h, instance, idFields) ==
  [i \in DOMAIN idFields |->
     IF isReferencedIdField(idFields[i])
       THEN LET fieldValue == GetPath(instance.value, dereferenceFieldName(idFields[i]))
            IN IF isReferenceExpression(fieldValue) /\ isInstanceLink(h, fieldValue.link)
                 THEN Str(h[fieldValue.link].elemID.name)
                 ELSE fieldValue
       ELSE GetPath(instance.value, idFields[i])]

\* idFields.map(fieldName => ...): the parts of the new name
newNameParts(h, instance, idFields) ==
  [i \in DOMAIN idFields |->
     IF isReferencedIdField(idFields[i])
       THEN LET fieldValue == GetPath(instance.value, dereferenceFieldName(idFields[i]))
            IN IF isReferenceExpression(fieldValue) /\ isInstanceLink(h, fieldValue.link)
                 THEN Str(fieldValue.id.name)
                 ELSE fieldValue
       ELSE GetPath(instance.value, idFields[i])]

\* getParents(instance).filter(...).map(parent => parent.value.elemID.name)
parentIds(h, instance) ==
  LET ps == SelectSeq(getParents(instance),
                      LAMBDA p : isReferenceExpression(p) /\ isInstanceLink(h, p.link))
  IN [i \in DOMAIN ps |-> h[ps[i].link].elemID.name]

\* const newNaclName = naclCase(parentIds.length > 0 ? ... : String(newName))
newNaclName(parents, newName) ==
  naclCase(IF Len(parents) > 0
             THEN Join(parents, ID_SEPARATOR) \o ID_SEPARATOR \o newName
             ELSE newName)

\* transformationConfigByType[typeName].isSingleton ? instance.path : getInstanceFilePath(...)
filePath(typeConfig, instance, naclName) ==
  IF "isSingleton" \in DOMAIN typeConfig /\ typeConfig.isSingleton
    THEN instance.path
    ELSE getInstanceFilePath(naclName, instance.elemID.typeName, instance.elemID.adapter)

\* the propagation with the filter on the full name turned around
otherInstancesSameName(h, elems, originalFullName) ==
  {elems[i] : i \in
     {j \in DOMAIN elems :
        /\ isInstanceElement(h[elems[j]])
        /\ originalFullName = getFullName(h[elems[j]].elemID)}}

\* the propagation without the filter isInstanceElement
otherElements(h, elems, originalFullName) ==
  {elems[i] : i \in
     {j \in DOMAIN elems : originalFullName # getFullName(h[elems[j]].elemID)}}

\* elements.filter(isInstanceElement)
\*   .filter(instance => originalFullName !== instance.elemID.getFullName())
otherInstances(h, elems, originalFullName) ==
  {elems[i] : i \in
     {j \in DOMAIN elems :
        /\ isInstanceElement(h[elems[j]])
        /\ originalFullName # getFullName(h[elems[j]].elemID)}}

\* the propagation that takes the references to every element for
\* references to the renamed instance
propagateAnyReference(h, elems, originalFullName, sourceElemId, newElemId) ==
  LET others == otherInstances(h, elems, originalFullName)
  IN [x \in DOMAIN h |->
        IF x \in others
          THEN UpdateRefs(h[x],
                          UNION {getReferences(h[x], h[y].elemID) : y \in DOMAIN h},
                          newElemId)
          ELSE h[x]]

\* lines 143-156: in every other instance of the array, the references to
\* the renamed instance are set to references to the new identifier
propagate(h, elems, originalFullName, sourceElemId, newElemId) ==
  LET others == otherInstances(h, elems, originalFullName)
  IN [x \in DOMAIN h |->
        IF x \in others
          THEN UpdateRefs(h[x], getReferences(h[x], sourceElemId), newElemId)
          ELSE h[x]]

\* elements.findIndex(e => e.elemID.getFullName() === originalFullName); 0 is "not found"
findIndex(h, elems, originalFullName) ==
  LET hits == {i \in DOMAIN elems : getFullName(h[elems[i]].elemID) = originalFullName}
  IN IF hits = {} THEN 0 ELSE CHOOSE i \in hits : \A j \in hits : i <= j

\* elements.splice(instanceIdx, 1, newInstance); a start of -1 is the last index
splice(elems, instanceIdx, newInstance) ==
  LET start == IF instanceIdx = 0 THEN Len(elems) ELSE instanceIdx
  IN [elems EXCEPT ![start] = newInstance]

(***************************************************************************)
(* Inputs of the call                                                      *)
(***************************************************************************)
NoBag == [f \in {} |-> Undef]
NoPath == <<>>

RECURSIVE Perms(_)
\* the orders of a set of objects in the array
Perms(S) ==
  IF S = {} THEN {<<>>}
  ELSE UNION {{<<x>> \o p : p \in Perms(S \ {x})} : x \in S}

\* The elements and the configuration of the workato filter's test:
\* folderType, rootFolder, goodRecipe, goodFolder, in every order
ChainHeap ==
  << ObjectType(TypeID("folder"), NoBag),
     InstanceElement(<<"folder11">>, TypeID("folder"),
                     [id |-> Str(<<"11">>), parent_id |-> Str(<<"ROOT">>)],
                     NoPath, NoBag),
     InstanceElement(<<"rec">>, TypeID("recipe"),
                     [name |-> Str(<<"good", "_", "recipe">>),
                      folder_id |-> Ref(InstID("folder", <<"folder222">>), 4)],
                     NoPath, NoBag),
     InstanceElement(<<"folder222">>, TypeID("folder"),
                     [id |-> Str(<<"222">>),
                      parent_id |-> Ref(InstID("folder", <<"folder11">>), 2)],
                     NoPath, NoBag) >>

ChainConfig ==
  [byType |->
     [recipe |-> [idFields |-> << <<"name">>, <<"&", "folder_id">> >>],
      recipe__code |-> [idFields |-> <<>>],
      folder |-> [idFields |-> << <<"id">>, <<"&", "parent_id">> >>]],
   default |-> [idFields |-> << <<"id">> >>]]

ChainInputs ==
  {[heap |-> ChainHeap, elements |-> p, config |-> ChainConfig] : p \in Perms(1..4)}

\* The elements and the configuration of the zendesk filter's test:
\* localeObjType, localeInstEnUs, itemVarType, itemVarInstance
VariantHeap ==
  << ObjectType(TypeID("locale"), NoBag),
     InstanceElement(<<"English">>, TypeID("locale"),
                     [id |-> Str(<<"1">>), locale |-> Str(<<"en", "-", "US">>),
                      name |-> Str(<<"English">>)],
                     NoPath, NoBag),
     ObjectType(TypeID("dynamic_content_item__variants"), NoBag),
     InstanceElement(<<"child1">>, TypeID("dynamic_content_item__variants"),
                     [id |-> Str(<<"22">>), content |-> Str(<<"abc">>),
                      locale_id |-> Ref(InstID("locale", <<"English">>), 2)],
                     NoPath, NoBag) >>

VariantConfig ==
  [byType |->
     [dynamic_content_item |-> [dataField |-> "."],
      dynamic_content_item__variants |->
        [idFields |-> << <<"content">>, <<"&", "locale_id">> >>],
      locales |-> [dataField |-> "locales"]],
   default |-> [idFields |-> << <<"name">> >>]]

VariantInputs ==
  {[heap |-> VariantHeap, elements |-> <<1, 2, 3, 4>>, config |-> VariantConfig]}

(***************************************************************************)
(* Generated inputs: NumInst instances named a, b, c, ... of the types ta  *)
(* and tb, and the type ta, which holds a reference to the first instance. *)
(* Every instance has a field id and may have a field ref and parents.     *)
(***************************************************************************)
Letters == <<"a", "b", "c", "d", "e">>
Digits == <<"1", "2", "3", "4", "5">>
Slots == 1..NumInst
TypeObj == NumInst + 1

\* at most one instance is of the type tb
TypeChoices ==
  {[i \in Slots |-> IF i = k THEN "tb" ELSE "ta"] : k \in 0..NumInst}

\* what the field ref of an instance holds
RefChoices(i) ==
  {<<"str", 0>>} \cup {<<"inst", j>> : j \in Slots}
  \cup (IF i = 1 THEN {<<"undefined", 0>>, <<"unresolved", 1>>, <<"type", 0>>} ELSE {})
  \cup (IF i = 2 THEN {<<"other", 0>>} ELSE {})

\* the parents of the last instance
ParentChoices ==
  { <<>>, << <<"inst", 1>> >>, << <<"unresolved", 1>> >> }
  \cup (IF NumInst >= 3 THEN { << <<"inst", 1>>, <<"inst", 2>> >> } ELSE {})

SlotID(ty, j) == InstID(ty[j], <<Letters[j]>>)

ChoiceValue(ty, c) ==
  CASE c[1] = "str" -> Str(<<"b">>)
    [] c[1] = "other" -> Str(<<"x">>)
    [] c[1] = "inst" -> Ref(SlotID(ty, c[2]), c[2])
    [] c[1] = "unresolved" -> Ref(SlotID(ty, c[2]), NoLink)
    [] c[1] = "type" -> Ref(TypeID("ta"), TypeObj)
    [] c[1] = "undefined" -> Undef

GenInstance(ty, rv, par, i) ==
  InstanceElement(
    <<Letters[i]>>, TypeID(ty[i]),
    IF rv[i][1] = "undefined" THEN [id |-> Str(<<Digits[i]>>)]
    ELSE [id |-> Str(<<Digits[i]>>), ref |-> ChoiceValue(ty, rv[i])],
    NoPath,
    IF i = NumInst /\ par # <<>>
      THEN [_parent |-> Arr([k \in DOMAIN par |-> ChoiceValue(ty, par[k])])]
      ELSE NoBag)

GenHeap(ty, rv, par) ==
  [x \in 1..TypeObj |->
     IF x = TypeObj
       THEN ObjectType(TypeID("ta"), [label |-> Ref(SlotID(ty, 1), 1)])
       ELSE GenInstance(ty, rv, par, x)]

ID == <<"id">>
REF == <<"&", "ref">>

\* the entry of ta has reference-marked idFields; tb has an entry with plain
\* idFields or no entry; the default has plain or reference-marked idFields
GenConfigs ==
  {[byType |-> bt, default |-> [idFields |-> d]] :
     bt \in {[ta |-> [idFields |-> f]] : f \in {<<REF>>, <<ID, REF>>}}
            \cup {[ta |-> [idFields |-> f], tb |-> [idFields |-> <<ID>>]] :
                    f \in {<<REF>>, <<ID, REF>>}},
     d \in {<<ID>>, <<REF>>}}

GenInputs ==
  {[heap |-> GenHeap(ty, rv, par),
    elements |-> <<TypeObj>> \o [i \in Slots |-> i],
    config |-> cfg] :
     ty \in TypeChoices,
     rv \in {r \in [Slots -> UNION {RefChoices(i) : i \in Slots}] :
               \A i \in Slots : r[i] \in RefChoices(i)},
     par \in ParentChoices, cfg \in GenConfigs}

Inputs == ChainInputs \cup VariantInputs \cup GenInputs

\* no call was made before
NoCall == [again |-> "none", heap |-> <<>>, elements |-> <<>>, heap0 |-> <<>>, records |-> <<>>]

\* no walk is going on
NoWalk ==
  /\ root = <<>>
  /\ todo = <<>>
  /\ walk = "idle"
  /\ thrown = "nothing"
  /\ visited = <<>>

Init ==
  /\ NoWalk
  /\ previous = NoCall
  /\ tasks = {}
  /\ \E input \in Inputs :
       /\ heap = input.heap
       /\ elements = input.elements
       /\ config = input.config
  /\ heap0 = heap
  /\ elements0 = elements
  /\ graph = [n \in {} |-> {}]
  /\ resolved = {}
  /\ status = "start"
  /\ records = <<>>

(***************************************************************************)
(* Actions                                                                 *)
(***************************************************************************)
\* lines 53-78: the instances are collected and the graph is built
BuildGraph ==
  /\ status = "start"
  /\ graph' = GraphOf(heap)
  /\ status' = "eval"
  /\ UNCHANGED <<heap, elements, config, resolved, records, heap0, elements0, previous, walkVars, tasks>>

\* lines 82-86: the node has no instance, or its idFields have no
\* reference-marked field; the callback does nothing
SkipNode(graphNode) ==
  /\ status = "eval"
  /\ graphNode \in FreeNodes
  /\ ~NeedsRename(graphNode)
  /\ resolved' = resolved \cup {graphNode}
  /\ UNCHANGED <<heap, elements, config, graph, status, records, heap0, elements0, previous, walkVars, tasks>>

\* line 117: the type of the instance has no entry in
\* transformationConfigByType, and reading isSingleton of undefined throws
ThrowNode(graphNode) ==
  /\ status = "eval"
  /\ graphNode \in FreeNodes
  /\ NeedsRename(graphNode)
  /\ LET f == FindInstanceIdFields(graphNode)
     IN ConfigOfType(config, heap[f.instance].elemID.typeName) = Undef
  /\ status' = "failed"
  /\ UNCHANGED <<heap, elements, config, graph, resolved, records, heap0, elements0, previous, walkVars, tasks>>

\* lines 87-159: the instance is replaced by an instance with the new name
RenameNode(graphNode) ==
  /\ status = "eval"
  /\ graphNode \in FreeNodes
  /\ NeedsRename(graphNode)
  /\ LET f == FindInstanceIdFields(graphNode)
         o == f.instance
         instance == heap[o]
         typeConfig == ConfigOfType(config, instance.elemID.typeName)
         originalName == instance.elemID.name
         originalFullName == getFullName(instance.elemID)
         parts == newNameParts(heap, instance, f.idFields)
         newName == joinInstanceNameParts(parts, originalName)
         parents == parentIds(heap, instance)
         naclName == newNaclName(parents, newName)
         newElemId == ElemID(instance.elemID.adapter, instance.elemID.typeName,
                             "instance", naclName)
         updatedInstance == updateElementReferences(instance, instance.elemID, newElemId)
         newInstance == InstanceElement(newElemId.name, instance.elemID,
                                        updatedInstance.value,
                                        filePath(typeConfig, instance, naclName),
                                        updatedInstance.annotations)
         newObj == Len(heap) + 1
         propagated == propagate(heap, elements, originalFullName, instance.elemID,
                                 newElemId)
         instanceIdx == findIndex(heap, elements, originalFullName)
     IN /\ typeConfig # Undef
        /\ heap' = [x \in 1..newObj |->
                      IF x = newObj THEN newInstance ELSE propagated[x]]
        /\ elements' = splice(elements, instanceIdx, newObj)
        /\ records' = Append(records,
                             [node |-> graphNode, orig |-> o, old |-> instance.elemID,
                              new |-> newElemId, obj |-> newObj,
                              idFields |-> f.idFields, parts |-> parts,
                              newName |-> newName, parents |-> parents,
                              before |-> resolved,
                              idx |-> instanceIdx,
                              at |-> IF instanceIdx = 0 THEN 0 ELSE elements[instanceIdx]])
  /\ resolved' = resolved \cup {graphNode}
  /\ UNCHANGED <<config, graph, status, heap0, elements0, previous, walkVars, tasks>>

\* the evaluation order cannot go on: the nodes left depend on each other
Cycle ==
  /\ status = "eval"
  /\ resolved # DOMAIN graph
  /\ FreeNodes = {}
  /\ status' = "cycle"
  /\ UNCHANGED <<heap, elements, config, graph, resolved, records, heap0, elements0, previous, walkVars, tasks>>

\* line 164: return elements
Return ==
  /\ status = "eval"
  /\ resolved = DOMAIN graph
  /\ status' = "done"
  /\ UNCHANGED <<heap, elements, config, graph, resolved, records, heap0, elements0, previous, walkVars, tasks>>

\* the caller gives the array that the call returned to a second call,
\* with the same configuration
CallAgain ==
  /\ status = "done"
  /\ previous = NoCall
  /\ previous' = [again |-> "output", heap |-> heap, elements |-> elements,
                   heap0 |-> heap0, records |-> records]
  /\ heap0' = heap
  /\ elements0' = elements
  /\ graph' = [n \in {} |-> {}]
  /\ resolved' = {}
  /\ records' = <<>>
  /\ status' = "start"
  /\ UNCHANGED <<heap, elements, config, walkVars, tasks>>

\* the caller makes a second call with the elements and the configuration
\* of the first
CallAgainOnInput ==
  /\ status = "done"
  /\ previous = NoCall
  /\ previous' = [again |-> "input", heap |-> heap, elements |-> elements,
                   heap0 |-> heap0, records |-> records]
  /\ heap' = heap0
  /\ elements' = elements0
  /\ graph' = [n \in {} |-> {}]
  /\ resolved' = {}
  /\ records' = <<>>
  /\ status' = "start"
  /\ UNCHANGED <<config, heap0, elements0, walkVars, tasks>>

Skip == \E graphNode \in FreeNodes : SkipNode(graphNode)

Throw == \E graphNode \in FreeNodes : ThrowNode(graphNode)

Rename == \E graphNode \in FreeNodes : RenameNode(graphNode)

Next ==
  \/ BuildGraph
  \/ Skip
  \/ Throw
  \/ Rename
  \/ Cycle
  \/ Return

Spec == Init /\ [][Next]_vars

\* one call, and a second call on its outcome
NextAgain ==
  \/ Next
  \/ CallAgain

SpecAgain == Init /\ [][NextAgain]_vars

\* one call, and a second call on the same input
NextRepeat ==
  \/ Next
  \/ CallAgainOnInput

SpecRepeat == Init /\ [][NextRepeat]_vars

(***************************************************************************)
(* The evaluation as the event loop runs it: the callback of a node runs   *)
(* to the await of line 129, and goes on when the promise is resolved.     *)
(***************************************************************************)
\* a forEach that calls the callback of the next node at once
forEachCallsAtOnce(awaiting) == TRUE

\* await awu(graph.evaluationOrder()).forEach(callback): the callback of the
\* next node is called when the promise of the callback before it is resolved
forEachCalls(awaiting) == awaiting = {}

\* lines 82-129: the callback of a node that is renamed computes the new
\* name and the new identifier, calls updateElementReferences and awaits
BeginRename(graphNode) ==
  /\ status = "eval"
  /\ forEachCalls(tasks)
  /\ graphNode \in FreeNodes
  /\ \A t \in tasks : t.node # graphNode
  /\ NeedsRename(graphNode)
  /\ LET f == FindInstanceIdFields(graphNode)
         o == f.instance
         instance == heap[o]
         typeConfig == ConfigOfType(config, instance.elemID.typeName)
         originalName == instance.elemID.name
         parts == newNameParts(heap, instance, f.idFields)
         newName == joinInstanceNameParts(parts, originalName)
         parents == parentIds(heap, instance)
         naclName == newNaclName(parents, newName)
         newElemId == ElemID(instance.elemID.adapter, instance.elemID.typeName,
                             "instance", naclName)
     IN /\ typeConfig # Undef
        /\ tasks' = tasks \cup
             {[node |-> graphNode, orig |-> o, old |-> instance.elemID,
               new |-> newElemId, idFields |-> f.idFields, parts |-> parts,
               newName |-> newName, parents |-> parents,
               filePath |-> filePath(typeConfig, instance, naclName),
               updatedInstance |-> updateElementReferences(instance, instance.elemID,
                                                           newElemId),
               seen |-> [heap |-> heap, elements |-> elements]]}
  /\ UNCHANGED <<heap, elements, config, graph, resolved, status, records, heap0,
                 elements0, previous, walkVars>>

\* lines 135-159: the promise is resolved, and the callback constructs the
\* replacement, propagates the new identifier and splices the replacement in
FinishRename(t) ==
  /\ status = "eval"
  /\ t \in tasks
  /\ LET originalFullName == getFullName(t.old)
         newInstance == InstanceElement(t.new.name, t.old, t.updatedInstance.value,
                                        t.filePath, t.updatedInstance.annotations)
         newObj == Len(heap) + 1
         propagated == propagate(heap, elements, originalFullName, t.old, t.new)
         instanceIdx == findIndex(heap, elements, originalFullName)
     IN /\ heap' = [x \in 1..newObj |->
                      IF x = newObj THEN newInstance ELSE propagated[x]]
        /\ elements' = splice(elements, instanceIdx, newObj)
        /\ records' = Append(records,
                             [node |-> t.node, orig |-> t.orig, old |-> t.old,
                              new |-> t.new, obj |-> newObj,
                              idFields |-> t.idFields, parts |-> t.parts,
                              newName |-> t.newName, parents |-> t.parents,
                              before |-> resolved,
                              idx |-> instanceIdx,
                              at |-> IF instanceIdx = 0 THEN 0 ELSE elements[instanceIdx]])
  /\ resolved' = resolved \cup {t.node}
  /\ tasks' = tasks \ {t}
  /\ UNCHANGED <<config, graph, status, heap0, elements0, previous, walkVars>>

BeginTask == \E graphNode \in FreeNodes : BeginRename(graphNode)

FinishTask == \E t \in tasks : FinishRename(t)

\* the callback of a node that is not renamed
SkipTask == forEachCalls(tasks) /\ Skip

\* the callback of a node throws at line 117
ThrowTask == forEachCalls(tasks) /\ Throw

\* the evaluation is over when no callback is left
CycleOfTasks == tasks = {} /\ Cycle

ReturnOfTasks == tasks = {} /\ Return

NextTasks ==
  \/ BuildGraph
  \/ SkipTask
  \/ ThrowTask
  \/ BeginTask
  \/ FinishTask
  \/ CycleOfTasks
  \/ ReturnOfTasks

SpecTasks == Init /\ [][NextTasks]_vars

(***************************************************************************)
(* walkOnElement.  A value is a leaf, an array, a plain object or an       *)
(* element; the entries of a plain object, and of the annotations, the     *)
(* fields and the value of an element, are kept in their order.  A path is *)
(* the identifier of an element and the names nested under it.             *)
(***************************************************************************)
\* enum WALK_NEXT_STEP
RECURSE == "RECURSE"
SKIP == "SKIP"
EXIT == "EXIT"

\* class ExitWalk extends Error {}
ExitWalk == "ExitWalk"

\* the errors that func may throw
Errors == {"TypeError", "Error"}

Leaf(x) == [kind |-> "leaf", v |-> x]
List(items) == [kind |-> "array", items |-> items]
Entry(key, val) == [key |-> key, val |-> val]
Plain(entries) == [kind |-> "object", entries |-> entries]
Field(annotations) == [kind |-> "field", annotations |-> annotations]

\* new ReferenceExpression(elemID, value): the element referred to is the
\* element given to the walk ("root") or another instance ("other"), which
\* holds a reference back to the element given to the walk
Reference(target) == [kind |-> "reference", target |-> target]

OtherInstance ==
  [kind |-> "instance", elemID |-> InstID("tb", <<"b">>), annotations |-> <<>>,
   value |-> <<Entry("back", Reference("root"))>>]

\* referenceExpression.value
resolvedValue(reference) ==
  IF reference.target = "root" THEN root ELSE OtherInstance

\* the properties of an object, as _.mapValues goes over them: the entries of
\* a plain object; elemID and value for a reference expression
ownEntries(value) ==
  IF value.kind = "reference"
    THEN <<Entry("elemID", Leaf(value.target)), Entry("value", resolvedValue(value))>>
    ELSE value.entries
PrimitiveType(elemID, annotations) ==
  [kind |-> "primitiveType", elemID |-> elemID, annotations |-> annotations]
ObjectTypeWithFields(elemID, annotations, fields) ==
  [kind |-> "objectType", elemID |-> elemID, annotations |-> annotations,
   fields |-> fields]
InstanceWithBags(elemID, annotations, value) ==
  [kind |-> "instance", elemID |-> elemID, annotations |-> annotations,
   value |-> value]

isType(value) == value.kind \in {"primitiveType", "objectType"}
isObjectType(value) == value.kind = "objectType"
isElement(value) == isType(value) \/ isInstanceElement(value) \/ value.kind = "field"
isArray(value) == value.kind = "array"

\* a test that takes every object that is not an array for a plain object
isObjectLike(value) == value.kind \in {"object", "reference"}

\* _.isPlainObject(value): an object made by the Object constructor or
\* without prototype; a ReferenceExpression is an instance of a class
isPlainObject(value) == value.kind = "object"

\* the path of a top level element: its identifier
TopPath(elemID) == [top |-> elemID, nested |-> <<>>]

\* keyPathID.createNestedID(name)
createNestedID(keyPathID, name) ==
  [keyPathID EXCEPT !.nested = Append(@, name)]

\* String(index)
IndexName == <<"0", "1", "2">>

\* a call of run
Run(value, keyPathID) == [value |-> value, path |-> keyPathID]

\* runOnValues that gives every entry the path of the object
runOnValuesSamePath(values, keyPathID) ==
  [i \in DOMAIN values |-> Run(values[i].val, keyPathID)]

\* runOnValues(values): run on every entry, under its key
runOnValues(values, keyPathID) ==
  [i \in DOMAIN values |-> Run(values[i].val, createNestedID(keyPathID, values[i].key))]

\* the calls of run that run(value, keyPathID) makes after func answered
\* RECURSE, in their order
runCalls(value, keyPathID) ==
  IF isElement(value)
    THEN (IF isType(value)
            THEN <<Run(Plain(value.annotations),
                       createNestedID(TopPath(value.elemID), "attr"))>>
            ELSE runOnValues(value.annotations, keyPathID))
         \o
         (IF isObjectType(value)
            THEN <<Run(Plain(value.fields),
                       createNestedID(TopPath(value.elemID), "field"))>>
          ELSE IF isInstanceElement(value)
            THEN runOnValues(value.value, keyPathID)
          ELSE <<>>)
  ELSE IF isArray(value)
    THEN [i \in DOMAIN value.items |->
            Run(value.items[i], createNestedID(keyPathID, IndexName[i]))]
  ELSE IF isPlainObject(value)
    THEN runOnValues(ownEntries(value), keyPathID)
  ELSE <<>>

\* what run does with the answer of func, when EXIT is taken as SKIP
afterFuncExitReturns(res) ==
  IF res = EXIT \/ res = SKIP THEN "return" ELSE "recurse"

\* what run does with the answer of func, when SKIP is taken as RECURSE
afterFuncSkipRecurses(res) ==
  IF res = EXIT THEN "throw" ELSE "recurse"

\* what run does with the answer of func
afterFunc(res) ==
  IF res = EXIT THEN "throw"
  ELSE IF res = SKIP THEN "return"
  ELSE "recurse"

\* a catch that returns whatever was thrown
catchAll(e) == "return"

\* catch (e) { if (e instanceof ExitWalk) { return } throw e }
catch(e) == IF e = ExitWalk THEN "return" ELSE "throw"

\* the values that the elements given to the walk are made of
WalkValues ==
  { Leaf("s"),
    List(<<>>),
    List(<<Leaf("s"), Leaf("t")>>),
    Plain(<<Entry("k", Leaf("s")), Entry("m", List(<<Leaf("t")>>))>>),
    List(<<Plain(<<Entry("k", Leaf("s"))>>), Leaf("t")>>),
    Reference("root"),
    List(<<Reference("other"), Leaf("t")>>) }

\* the elements given to the walk: instances, primitive types and object
\* types with two fields
WalkInputs ==
  { InstanceWithBags(InstID("ta", <<"a">>), ann, <<Entry("x", v), Entry("y", w)>>) :
      ann \in {<<>>, <<Entry("_parent", List(<<Leaf("s")>>))>>},
      v \in WalkValues, w \in WalkValues }
  \cup
  { PrimitiveType(TypeID("tp"), <<Entry("label", v)>>) : v \in WalkValues }
  \cup
  { ObjectTypeWithFields(TypeID("ta"), <<Entry("label", v)>>,
                         <<Entry("f", Field(<<Entry("d", w)>>)), Entry("g", Field(<<>>))>>) :
      v \in WalkValues, w \in WalkValues }

\* no call of addReferencesToInstanceNames is going on
NoNaming ==
  /\ heap = <<>>
  /\ elements = <<>>
  /\ config = [byType |-> <<>>, default |-> [idFields |-> <<>>]]
  /\ graph = [n \in {} |-> {}]
  /\ resolved = {}
  /\ status = "idle"
  /\ records = <<>>
  /\ heap0 = <<>>
  /\ elements0 = <<>>
  /\ previous = NoCall
  /\ tasks = {}

\* walkOnElement({ element, func }): run(element, element.elemID) is to be made
WalkInit ==
  /\ NoNaming
  /\ root \in WalkInputs
  /\ todo = <<[value |-> root, path |-> TopPath(root.elemID), addr |-> <<>>]>>
  /\ walk = "running"
  /\ thrown = "nothing"
  /\ visited = <<>>

\* lines 46-68: run calls func, which answers res; on EXIT run throws, on
\* SKIP it returns, and otherwise it goes on with the calls of run for what
\* is under the value
Func(res) ==
  /\ walk = "running"
  /\ todo # <<>>
  /\ LET call == Head(todo)
         calls == runCalls(call.value, call.path)
         next == [i \in DOMAIN calls |->
                    [value |-> calls[i].value, path |-> calls[i].path,
                     addr |-> Append(call.addr, i)]]
     IN /\ visited' = Append(visited,
                             [value |-> call.value, path |-> call.path,
                              addr |-> call.addr, res |-> res, error |-> "nothing"])
        /\ \/ /\ afterFunc(res) = "throw"
              /\ walk' = "thrown"
              /\ thrown' = ExitWalk
              /\ todo' = <<>>
           \/ /\ afterFunc(res) = "return"
              /\ todo' = Tail(todo)
              /\ UNCHANGED <<walk, thrown>>
           \/ /\ afterFunc(res) = "recurse"
              /\ todo' = next \o Tail(todo)
              /\ UNCHANGED <<walk, thrown>>
  /\ UNCHANGED <<root, nameVars>>

FuncRecurse == \E res \in {RECURSE} : Func(res)

FuncSkip == \E res \in {SKIP} : Func(res)

FuncExit == \E res \in {EXIT} : Func(res)

\* line 46: func throws an error
FuncThrows ==
  /\ walk = "running"
  /\ todo # <<>>
  /\ \E e \in Errors :
       /\ visited' = Append(visited,
                            [value |-> Head(todo).value, path |-> Head(todo).path,
                             addr |-> Head(todo).addr, res |-> "throws", error |-> e])
       /\ thrown' = e
  /\ walk' = "thrown"
  /\ todo' = <<>>
  /\ UNCHANGED <<root, nameVars>>

\* lines 72-75: what was thrown is caught, and walkOnElement returns
CatchReturns ==
  /\ walk = "thrown"
  /\ catch(thrown) = "return"
  /\ walk' = "returned"
  /\ UNCHANGED <<root, todo, thrown, visited, nameVars>>

\* line 76: what was thrown is thrown again to the caller
CatchThrows ==
  /\ walk = "thrown"
  /\ catch(thrown) = "throw"
  /\ walk' = "raised"
  /\ UNCHANGED <<root, todo, thrown, visited, nameVars>>

\* line 71: run(element, element.elemID) has returned
WalkReturns ==
  /\ walk = "running"
  /\ todo = <<>>
  /\ walk' = "returned"
  /\ UNCHANGED <<root, todo, thrown, visited, nameVars>>

WalkNext ==
  \/ FuncRecurse
  \/ FuncSkip
  \/ FuncExit
  \/ FuncThrows
  \/ CatchReturns
  \/ CatchThrows
  \/ WalkReturns

WalkSpec == WalkInit /\ [][WalkNext]_vars

(***************************************************************************)
(* Notions the properties are stated with                                  *)
(***************************************************************************)
Done == status = "done"

\* the name of the element that is, at the end, where object o was in the input
FinalNameAtPlaceOf(o) ==
  LET i == CHOOSE j \in DOMAIN elements0 : elements0[j] = o
  IN heap[elements[i]].elemID.name

IsChain == heap0 = ChainHeap /\ config = ChainConfig

\* the input instances that the reference-marked idFields of the input
\* instance o resolve to
DirectDeps(o) ==
  LET idFields == IdFieldsOf(config, heap0[o].elemID.typeName)
  IN { b \in DOMAIN heap0 :
         /\ heap0[b].kind = "instance"
         /\ \E i \in DOMAIN idFields :
              /\ Head(idFields[i]) = "&"
              /\ Tail(idFields[i]) = <<idFields[i][2]>>
              /\ idFields[i][2] \in DOMAIN heap0[o].value
              /\ heap0[o].value[idFields[i][2]].k = "ref"
              /\ heap0[o].value[idFields[i][2]].link = b }

RECURSIVE Reach(_, _)
Reach(S, n) ==
  IF n = 0 THEN S ELSE Reach(S \cup UNION {DirectDeps(x) : x \in S}, n - 1)

\* the instances the name of o depends on, directly or transitively
TransDeps(o) == Reach(DirectDeps(o), Len(heap0))

\* the dependency graph of the input has no cycle
Acyclic == \A o \in DOMAIN heap0 : heap0[o].kind = "instance" => o \notin TransDeps(o)

RECURSIVE AllRefsUnder(_, _)
AllRefsUnder(v, path) ==
  IF v.k = "ref" THEN {[path |-> path, value |-> v]}
  ELSE IF v.k = "arr"
    THEN UNION {AllRefsUnder(v.items[i], Append(path, i)) : i \in DOMAIN v.items}
  ELSE {}

\* every reference of an element, with the path where it is
AllRefs(element) ==
  UNION {AllRefsUnder(element.annotations[f], <<"annotations", f>>) :
           f \in DOMAIN element.annotations}
  \cup
  (IF element.kind = "instance"
     THEN UNION {AllRefsUnder(element.value[f], <<"value", f>>) :
                   f \in DOMAIN element.value}
     ELSE {})

RECURSIVE ValueUnder(_, _)
ValueUnder(v, rest) ==
  IF rest = <<>> THEN v ELSE ValueUnder(v.items[rest[1]], Tail(rest))

ValueAt(element, path) ==
  ValueUnder(element[path[1]][path[2]], SubSeq(path, 3, Len(path)))

\* the input object that the object e is, or is the replacement of
OriginOf(e) ==
  IF e \in DOMAIN heap0 THEN e
  ELSE records[CHOOSE i \in DOMAIN records : records[i].obj = e].orig

\* the identifiers of the elements of the array
IdsPresent == {heap[elements[i]].elemID : i \in DOMAIN elements}

(***************************************************************************)
(* C1: with the folders 11 (parent_id 'ROOT') and 222 (parent_id ->        *)
(* folder 11), the recipe good_recipe (folder_id -> folder 222) and the    *)
(* idFields folder: [id, &parent_id], recipe: [name, &folder_id], the      *)
(* final names are 11_ROOT, 222_11_ROOT and good_recipe_222_11_ROOT, in    *)
(* every order of the input array.                                         *)
(***************************************************************************)
C1_ChainedRename ==
  (Done /\ IsChain) =>
     /\ FinalNameAtPlaceOf(2) = <<"11", "_", "ROOT">>
     /\ FinalNameAtPlaceOf(4) = <<"222", "_", "11", "_", "ROOT">>
     /\ FinalNameAtPlaceOf(3) =
          <<"good", "_", "recipe", "_", "222", "_", "11", "_", "ROOT">>

\* the run is over for the input in which the recipe comes first and the
\* root folder last
C1_Witness ==
  /\ Done /\ IsChain
  /\ elements0 = <<3, 4, 1, 2>>
  /\ Len(records) = 3

(***************************************************************************)
(* C2: when the name of an instance A is computed, the node of every       *)
(* instance B that A's name depends on, directly or transitively through   *)
(* reference-marked idFields, has been evaluated before, and B's           *)
(* replacement, if B gets one, was made before.                            *)
(***************************************************************************)
C2_TopologicalSoundness ==
  \A i \in DOMAIN records :
     \A b \in TransDeps(records[i].orig) :
        /\ getFullName(heap0[b].elemID) \in records[i].before
        /\ NeedsRename(getFullName(heap0[b].elemID)) =>
              \E j \in 1..(i-1) : records[j].orig = b

\* the name of the recipe of the chain was computed: it depends on folder
\* 222 directly and on folder 11 through it
C2_Witness ==
  /\ IsChain
  /\ \E i \in DOMAIN records :
       /\ records[i].orig = 3
       /\ TransDeps(3) = {2, 4}
       /\ DirectDeps(3) = {4}

\* every reference that an element of the given kinds had in the input to
\* the former identifier of a renamed instance has the new identifier
RewrittenIn(kinds) ==
  \A i \in DOMAIN elements :
     heap[elements[i]].kind \in kinds =>
       \A r \in AllRefs(heap0[OriginOf(elements[i])]) :
          \A k \in DOMAIN records :
             records[k].old = r.value.id =>
               ValueAt(heap[elements[i]], r.path).id = records[k].new

(***************************************************************************)
(* C3: at the end, every reference of the array whose target in the input  *)
(* was the identifier old of an instance that the run renamed to new has   *)
(* the target new.                                                         *)
(***************************************************************************)
C3_RewriteIntegrity == Done => RewrittenIn({"instance", "type"})

\* no reference in an element of the given kinds has as target the former
\* identifier of a renamed instance that no element of the array has
NoDanglingIn(kinds) ==
  \A i \in DOMAIN elements :
     heap[elements[i]].kind \in kinds =>
       \A r \in AllRefs(heap[elements[i]]) :
          (\E k \in DOMAIN records : records[k].old = r.value.id) =>
             r.value.id \in IdsPresent

instances0 == {o \in DOMAIN heap0 : heap0[o].kind = "instance"}

\* the run has replaced the input instance o
Renamed(o) == \E k \in DOMAIN records : records[k].orig = o

\* the record of the replacement of the input instance o
RecordOf(o) == records[CHOOSE k \in DOMAIN records : records[k].orig = o]

\* the name that the input instance o, or its replacement, has at the end
FinalNameOf(o) ==
  IF Renamed(o) THEN RecordOf(o).new.name ELSE heap0[o].elemID.name

\* the name that the input instance o, or its replacement, has when the
\* k-th replacement is made
CurrentNameOf(o, k) ==
  IF \E j \in 1..(k-1) : records[j].orig = o
    THEN RecordOf(o).new.name
    ELSE heap0[o].elemID.name

\* the parent references of the input instance o that are resolved to instances
InstanceParents(o) ==
  SelectSeq(getParents(heap0[o]),
            LAMBDA p : isReferenceExpression(p) /\ isInstanceLink(heap0, p.link))

(***************************************************************************)
(* C5: at the end, the name of every replaced instance with parent         *)
(* references resolved to instances is the final names of those parents,   *)
(* in parent order, joined by "__", then "__" and the computed name, also  *)
(* when a parent is replaced in the same run, in every evaluation order.   *)
(***************************************************************************)
C5_ParentPrefix ==
  Done =>
    \A k \in DOMAIN records :
       LET ps == InstanceParents(records[k].orig)
       IN ps # <<>> =>
            records[k].new.name =
              naclCase(Join([i \in DOMAIN ps |-> FinalNameOf(ps[i].link)], ID_SEPARATOR)
                       \o ID_SEPARATOR \o records[k].newName)

\* the type of the input instance o has no entry in transformationConfigByType
NoEntry(o) == ConfigOfType(config, heap0[o].elemID.typeName) = Undef

(***************************************************************************)
(* C6: when the type of an instance has no entry in the configuration by   *)
(* type, the idFields of the default are the ones of the instance and the  *)
(* run raises no error, whatever the idFields of the default are: at the   *)
(* end of a run without cycle the instance is replaced when the default    *)
(* has a reference-marked field.                                           *)
(***************************************************************************)
C6_DefaultFallback ==
  \A o \in instances0 :
     NoEntry(o) =>
       /\ status # "failed"
       /\ IdFieldsOf(config, heap0[o].elemID.typeName) = config.default.idFields
       /\ (Done /\ hasReferencedIdFields(config.default.idFields)) => Renamed(o)

(***************************************************************************)
(* C7: the array keeps its length, and at the end the element at every     *)
(* index is the input element of that index when it was not replaced, and  *)
(* its replacement otherwise; the identifiers of the input are pairwise    *)
(* distinct.                                                               *)
(***************************************************************************)
C7_InPlace ==
  (\A i, j \in DOMAIN elements0 :
      i # j => heap0[elements0[i]].elemID # heap0[elements0[j]].elemID)
  =>
  /\ Len(elements) = Len(elements0)
  /\ Done =>
       \A i \in DOMAIN elements0 :
          elements[i] = IF Renamed(elements0[i]) THEN RecordOf(elements0[i]).obj
                        ELSE elements0[i]

(***************************************************************************)
(* C8: the computed name of a replaced instance is its parts, one for each *)
(* of the idFields in their order, joined by "_": the part of a plain      *)
(* field is the value of the field, and the part of a reference-marked     *)
(* field that holds a reference resolved to an instance is the name that   *)
(* the referenced instance has at that time. The variant with content      *)
(* 'abc' and &locale_id -> English gets the name abc_English.              *)
(***************************************************************************)
C8_ComputedName ==
  /\ \A k \in DOMAIN records :
       LET o == records[k].orig
           idFields == records[k].idFields
           parts == records[k].parts
       IN /\ DOMAIN parts = DOMAIN idFields
          /\ records[k].newName = Join([i \in DOMAIN parts |-> StringOf(parts[i])], <<"_">>)
          /\ \A i \in DOMAIN idFields :
               IF ~isReferencedIdField(idFields[i])
                 THEN parts[i] = GetPath(heap0[o].value, idFields[i])
                 ELSE LET v == GetPath(heap0[o].value, dereferenceFieldName(idFields[i]))
                      IN (isReferenceExpression(v) /\ isInstanceLink(heap0, v.link)) =>
                           parts[i] = Str(CurrentNameOf(v.link, k))
  /\ (Done /\ heap0 = VariantHeap) =>
       heap[elements[4]].elemID.name = <<"abc", "_", "English">>

\* the idFields of the input instance o have no reference-marked field
PlainIdFields(o) ==
  LET idFields == IdFieldsOf(config, heap0[o].elemID.typeName)
  IN \A i \in DOMAIN idFields : Head(idFields[i]) # "&"

(***************************************************************************)
(* C9: an instance whose idFields have no reference-marked field keeps its *)
(* name, stays the same object at the same index of the array, is never    *)
(* replaced, and no reference to it is rewritten.                          *)
(***************************************************************************)
C9_Untouched ==
  \A i \in DOMAIN elements0 :
     LET o == elements0[i]
     IN (o \in instances0 /\ PlainIdFields(o)) =>
          /\ elements[i] = o
          /\ heap[o].elemID = heap0[o].elemID
          /\ \A k \in DOMAIN records : records[k].orig # o /\ records[k].at # o
          /\ \A j \in DOMAIN elements :
               \A r \in AllRefs(heap0[OriginOf(elements[j])]) :
                  r.value.id = heap0[o].elemID =>
                    ValueAt(heap[elements[j]], r.path).id = heap0[o].elemID

\* the run is over, other instances were replaced, and an instance with
\* plain idFields that another instance refers to is where it was
C9_Witness ==
  /\ Done
  /\ records # <<>>
  /\ \E o \in instances0 :
       /\ PlainIdFields(o)
       /\ \E x \in instances0 \ {o} :
            \E r \in AllRefs(heap0[x]) : r.value.link = o
       /\ \E k \in DOMAIN records :
            \E r \in AllRefs(heap0[o]) : r.value.link = records[k].orig

\* the value v is not a reference resolved to an instance
NotInstanceReference(v) ==
  ~(isReferenceExpression(v) /\ isInstanceLink(heap0, v.link))

\* the part is the value v, up to the identifier of a reference
SameRaw(part, v) ==
  IF isReferenceExpression(v)
    THEN isReferenceExpression(part) /\ part.link = v.link
    ELSE part = v

(***************************************************************************)
(* C10: when a reference-marked field of the idFields of an instance holds *)
(* a scalar, an unresolved reference, a reference to a type or undefined,  *)
(* that value is the part of the name and the run raises no error: in a    *)
(* run without cycle every node is evaluated.                              *)
(***************************************************************************)
C10_RawFallback ==
  \A o \in instances0 :
     LET idFields == IdFieldsOf(config, heap0[o].elemID.typeName)
         raw(i) == GetPath(heap0[o].value, dereferenceFieldName(idFields[i]))
         fallbacks == {i \in DOMAIN idFields :
                         isReferencedIdField(idFields[i]) /\ NotInstanceReference(raw(i))}
     IN (Acyclic /\ fallbacks # {}) =>
          /\ status # "failed"
          /\ Renamed(o) => \A i \in fallbacks : SameRaw(RecordOf(o).parts[i], raw(i))
          /\ Done => Renamed(o)

\* the identifier and the target identifiers of the references of an element
NameAndTargets(element) ==
  [elemID |-> element.elemID,
   targets |-> {[path |-> r.path, id |-> r.value.id] : r \in AllRefs(element)}]

\* the elements of the array have the names and the reference targets that
\* the elements had at the end of the call before
SameAsPrevious ==
  /\ Len(elements) = Len(previous.elements)
  /\ \A i \in DOMAIN elements :
       NameAndTargets(heap[elements[i]]) =
         NameAndTargets(previous.heap[previous.elements[i]])

(***************************************************************************)
(* C11: a second call, with the same configuration, on the array that a    *)
(* first call returned ends with the same name for every instance and the  *)
(* same target identifier for every reference.                             *)
(***************************************************************************)
C11_Idempotence == (Done /\ previous.again = "output") => SameAsPrevious

(***************************************************************************)
(* C12: two calls with the same elements and the same configuration end    *)
(* with the same names of the instances and the same target identifiers of *)
(* the references, whatever the orders of evaluation of the two calls.     *)
(***************************************************************************)
C12_Determinism == (Done /\ previous.again = "input") => SameAsPrevious

(***************************************************************************)
(* The nodes of the element given to the walk, by their place: the place   *)
(* of the element is <<>>, and the place of the i-th part of a node is the *)
(* place of the node followed by i.                                        *)
(***************************************************************************)
\* the entries of a bag, each under its key
PartsOfBag(entries, path) ==
  [i \in DOMAIN entries |->
     [value |-> entries[i].val,
      path |-> [path EXCEPT !.nested = Append(path.nested, entries[i].key)]]]

\* the parts of a node, in their order, with their paths: for a type its
\* annotations under attr and, for an object type, its fields under field;
\* for an instance the entries of its annotations and of its value; for a
\* field the entries of its annotations; the items of an array by index and
\* the entries of a plain object by key
PartsOf(node, path) ==
  CASE node.kind = "primitiveType" ->
         <<[value |-> Plain(node.annotations),
            path |-> [top |-> node.elemID, nested |-> <<"attr">>]]>>
    [] node.kind = "objectType" ->
         <<[value |-> Plain(node.annotations),
            path |-> [top |-> node.elemID, nested |-> <<"attr">>]],
           [value |-> Plain(node.fields),
            path |-> [top |-> node.elemID, nested |-> <<"field">>]]>>
    [] node.kind = "instance" ->
         PartsOfBag(node.annotations, path) \o PartsOfBag(node.value, path)
    [] node.kind = "field" -> PartsOfBag(node.annotations, path)
    [] node.kind = "array" ->
         [i \in DOMAIN node.items |->
            [value |-> node.items[i],
             path |-> [path EXCEPT !.nested =
                         Append(path.nested, CASE i = 1 -> "0" [] i = 2 -> "1" [] i = 3 -> "2")]]]
    [] node.kind = "object" -> PartsOfBag(node.entries, path)
    [] node.kind = "leaf" -> <<>>
    [] node.kind = "reference" -> <<>>

RECURSIVE NodesUnder(_, _, _, _)
\* the parts from the i-th on of a node at a place, each followed by what
\* is under it
NodesUnder(parts, place, i, depth) ==
  IF i > Len(parts) \/ depth = 0 THEN <<>>
  ELSE <<[value |-> parts[i].value, path |-> parts[i].path, addr |-> Append(place, i)]>>
       \o NodesUnder(PartsOf(parts[i].value, parts[i].path), Append(place, i), 1, depth - 1)
       \o NodesUnder(parts, place, i + 1, depth)

\* every node of the element, each before what is under it
Nodes ==
  <<[value |-> root, path |-> [top |-> root.elemID, nested |-> <<>>], addr |-> <<>>]>>
  \o NodesUnder(PartsOf(root, [top |-> root.elemID, nested |-> <<>>]), <<>>, 1, 8)

\* the calls of func made so far
Calls ==
  [i \in DOMAIN visited |->
     [value |-> visited[i].value, path |-> visited[i].path, addr |-> visited[i].addr]]

\* func answered SKIP at a node that the place is under
UnderSkipped(place) ==
  \E i \in DOMAIN visited :
     /\ visited[i].res = SKIP
     /\ Len(visited[i].addr) < Len(place)
     /\ SubSeq(place, 1, Len(visited[i].addr)) = visited[i].addr

(***************************************************************************)
(* C13: when func answers EXIT at a node, func is not called again in that *)
(* walk, and walkOnElement returns to its caller without an error.         *)
(***************************************************************************)
C13_ExitStopsWalk ==
  \A i \in DOMAIN visited :
     visited[i].res = EXIT =>
       /\ i = Len(visited)
       /\ \/ walk = "thrown" /\ thrown = ExitWalk
          \/ walk = "returned"

\* func answered EXIT at a node that has parts and that is not the last
\* node, after other calls, and walkOnElement has returned
C13_Witness ==
  /\ walk = "returned"
  /\ Len(visited) > 2
  /\ visited[Len(visited)].res = EXIT
  /\ PartsOf(visited[Len(visited)].value, visited[Len(visited)].path) # <<>>
  /\ Len(visited) < Len(Nodes)

(***************************************************************************)
(* C14: when func answers SKIP or RECURSE at every node, func is called on *)
(* no node under a node where it answered SKIP, and the calls are, in      *)
(* their order, the nodes that are under no such node: the nodes outside   *)
(* what is under a node are called whether func answers SKIP or RECURSE    *)
(* there.                                                                  *)
(***************************************************************************)
C14_SkipLeavesRestOfWalk ==
  (\A i \in DOMAIN visited : visited[i].res \in {SKIP, RECURSE}) =>
    LET kept == SelectSeq(Nodes, LAMBDA n : ~UnderSkipped(n.addr))
    IN /\ Len(visited) <= Len(kept)
       /\ Calls = SubSeq(kept, 1, Len(visited))
       /\ walk = "returned" => Calls = kept

\* func answered SKIP at a node that has parts, and was called on a node
\* after it; walkOnElement has returned
C14_Witness ==
  /\ walk = "returned"
  /\ \E i \in DOMAIN visited :
       /\ visited[i].res = SKIP
       /\ PartsOf(visited[i].value, visited[i].path) # <<>>
       /\ i < Len(visited)
       /\ visited[i + 1].res = RECURSE
  /\ \A i \in DOMAIN visited : visited[i].res \in {SKIP, RECURSE}

(***************************************************************************)
(* C15: when func answers RECURSE at every node, func is called once on    *)
(* every node of the element, the element first with its identifier as     *)
(* path and every node before what is under it: the items of an array by   *)
(* index and the entries of a plain object by key, with the path of the    *)
(* array or object followed by the index or key; the annotations of a type *)
(* under attr and the fields of an object type under field; the entries of *)
(* the annotations and of the value of an instance.                        *)
(***************************************************************************)
C15_RecurseVisitsEveryNode ==
  (\A i \in DOMAIN visited : visited[i].res = RECURSE) =>
    /\ Len(visited) <= Len(Nodes)
    /\ Calls = SubSeq(Nodes, 1, Len(visited))
    /\ \A i, j \in DOMAIN visited : i # j => visited[i].addr # visited[j].addr
    /\ walk = "returned" => Calls = Nodes

\* the walk of an object type whose annotation holds an array with a plain
\* object has returned, with RECURSE at every node
C15_Witness ==
  /\ walk = "returned"
  /\ \A i \in DOMAIN visited : visited[i].res = RECURSE
  /\ root.kind = "objectType"
  /\ root.annotations[1].val = List(<<Plain(<<Entry("k", Leaf("s"))>>), Leaf("t")>>)
  /\ Len(visited) = Len(Nodes)
  /\ Len(visited) > 8

(***************************************************************************)
(* C16: an error that func throws, which is not the exit signal of the     *)
(* walk, is thrown by walkOnElement to its caller as it is: after it func  *)
(* is not called, and walkOnElement does not return.                       *)
(***************************************************************************)
C16_ErrorPropagates ==
  \A i \in DOMAIN visited :
     visited[i].res = "throws" =>
       /\ i = Len(visited)
       /\ thrown = visited[i].error
       /\ walk \in {"thrown", "raised"}

\* func threw an error after other calls, and the caller got it
C16_Witness ==
  /\ walk = "raised"
  /\ thrown \in Errors
  /\ Len(visited) > 2
  /\ visited[Len(visited)].res = "throws"

(***************************************************************************)
(* C17: a replacement is made only when the name computed for an instance  *)
(* differs from its current name: when they are equal no identifier and no *)
(* replacement are constructed, and the collection keeps the same instance *)
(* object.                                                                 *)
(***************************************************************************)
C17_NoReplacementForSameName ==
  /\ \A k \in DOMAIN records : records[k].new.name # records[k].old.name
  /\ \A i \in DOMAIN elements : \A k \in DOMAIN records :
       elements[i] = records[k].obj => heap[elements[i]].elemID # records[k].old

(***************************************************************************)
(* C18: a reference with a resolved link whose target identifier was       *)
(* rewritten from old to new by a rename has a link to the replacement     *)
(* instance, which is in the collection, and not to the original instance  *)
(* object that the rename took out of the collection.                      *)
(***************************************************************************)
C18_LinkToReplacement ==
  \A i \in DOMAIN elements : \A r \in AllRefs(heap[elements[i]]) :
    \A k \in DOMAIN records :
      (/\ r.value.id = records[k].new
       /\ r.value.link \in {records[k].orig, records[k].obj})
      => /\ r.value.link = records[k].obj
         /\ \E j \in DOMAIN elements : elements[j] = r.value.link

(***************************************************************************)
(* C19: the graph has one node for each instance of the collection given   *)
(* to the call, under its full name, and the node of an instance A has an  *)
(* edge to B exactly when a reference-marked identifier field of A holds a *)
(* reference whose resolved value is an instance with the full name B; a   *)
(* reference to a type, an unresolved reference or a missing value gives   *)
(* no edge, and an instance without reference-marked field has no edge.    *)
(***************************************************************************)
\* the instance objects of the collection given to the call
GivenInstances ==
  {elements0[i] : i \in {j \in DOMAIN elements0 : heap0[elements0[j]].kind = "instance"}}

\* the identifier fields configured for the type of an instance: those of
\* the entry of its type when the entry has some, else the default ones
ConfiguredIdFields(o) ==
  LET typeName == heap0[o].elemID.typeName
  IN IF typeName \in DOMAIN config.byType /\ "idFields" \in DOMAIN config.byType[typeName]
       THEN config.byType[typeName].idFields
       ELSE config.default.idFields

\* the full names of the instances that the values of the reference-marked
\* identifier fields of an instance are resolved to
ResolvedTargets(o) ==
  LET fields == {Tail(ConfiguredIdFields(o)[i]) :
                   i \in {j \in DOMAIN ConfiguredIdFields(o) :
                            Head(ConfiguredIdFields(o)[j]) = "&"}}
      held == {heap0[o].value[f[1]] :
                 f \in {g \in fields : Len(g) = 1 /\ g[1] \in DOMAIN heap0[o].value}}
  IN {getFullName(heap0[v.link].elemID) :
        v \in {w \in held : /\ w.k = "ref"
                            /\ w.link # NoLink
                            /\ heap0[w.link].kind = "instance"}}

\* C19: one node for each instance, and the edges of the node of an instance
\* are the full names of the instances that its reference-marked identifier
\* fields are resolved to
C19_GraphOfInstances ==
  status \in {"eval", "done", "cycle"} =>
    /\ DOMAIN graph = {getFullName(heap0[o].elemID) : o \in GivenInstances}
    /\ Cardinality(DOMAIN graph) = Cardinality(GivenInstances)
    /\ \A o \in GivenInstances :
         graph[getFullName(heap0[o].elemID)] = ResolvedTargets(o)

(***************************************************************************)
(* C20: the graph built by addReferencesToInstanceNames has no edge from a *)
(* node to itself, whatever the collection and the configuration are, also *)
(* when a reference-marked identifier field of an instance holds a         *)
(* reference to that same instance.                                        *)
(***************************************************************************)
C20_NoSelfEdge ==
  status \in {"eval", "done", "cycle"} => \A n \in DOMAIN graph : n \notin graph[n]

(***************************************************************************)
(* C21: in one call every node of the graph is evaluated once, and an      *)
(* instance is renamed at most once: no two renames are of the same node   *)
(* or of the same instance, each rename constructs one replacement, and at *)
(* the end every node has been evaluated.                                  *)
(***************************************************************************)
C21_RenamedOnce ==
  /\ \A j, k \in DOMAIN records :
       j # k => /\ records[j].node # records[k].node
                /\ records[j].orig # records[k].orig
                /\ records[j].obj # records[k].obj
  /\ \A k \in DOMAIN records :
       /\ records[k].node \in resolved
       /\ records[k].node \notin records[k].before
       /\ records[k].orig \in DOMAIN heap0
       /\ records[k].obj \notin DOMAIN heap0
  /\ Len(heap) = Len(heap0) + Len(records)
  /\ Done => resolved = DOMAIN graph

\* a call has returned after it renamed every instance of the collection,
\* two of them to the same name
C21_Witness ==
  /\ Done
  /\ Len(records) = NumInst
  /\ \E j, k \in DOMAIN records : j # k /\ records[j].new = records[k].new

(***************************************************************************)
(* C22: the propagation of a rename old -> new changes, in the instances   *)
(* other than the renamed one, nothing but references whose target is old, *)
(* each where it is: every other value and every reference to another      *)
(* target stay as they are, and the collection keeps its length and its    *)
(* entries, but for the one entry that the splice replaces.                *)
(***************************************************************************)
RECURSIVE OnlyRetargeted(_, _, _, _)
\* w is v, but for references to old that may have become references to new
OnlyRetargeted(v, w, old, new) ==
  IF v.k = "ref" /\ v.id = old
    THEN w.k = "ref" /\ w.id \in {old, new}
  ELSE IF v.k = "arr"
    THEN /\ w.k = "arr"
         /\ Len(w.items) = Len(v.items)
         /\ \A i \in DOMAIN v.items : OnlyRetargeted(v.items[i], w.items[i], old, new)
  ELSE w = v

\* the bag c is the bag b, but for references to old
BagOnlyRetargeted(b, c, old, new) ==
  /\ DOMAIN c = DOMAIN b
  /\ \A f \in DOMAIN b : OnlyRetargeted(b[f], c[f], old, new)

C22_PropagationFrame ==
  [][ Len(records') = Len(records) + 1 =>
        LET r == records'[Len(records')]
        IN /\ \A x \in DOMAIN heap :
                (x # r.orig /\ heap[x].kind = "instance") =>
                  /\ heap'[x].kind = "instance"
                  /\ heap'[x].elemID = heap[x].elemID
                  /\ heap'[x].path = heap[x].path
                  /\ BagOnlyRetargeted(heap[x].value, heap'[x].value, r.old, r.new)
                  /\ BagOnlyRetargeted(heap[x].annotations, heap'[x].annotations,
                                       r.old, r.new)
           /\ Len(elements') = Len(elements)
           /\ \A i \in DOMAIN elements :
                elements'[i] # elements[i] => (i = r.idx /\ elements'[i] = r.obj)
    ]_vars

\* a rename was propagated to an instance that holds, in the array of its
\* parents, a reference to the renamed instance next to a reference to
\* another instance, and in a field a value that is no reference
C22_Witness ==
  \E k \in DOMAIN records : \E i \in DOMAIN elements :
    LET e == heap[elements[i]]
    IN /\ e.kind = "instance"
       /\ elements[i] # records[k].obj
       /\ records[k].new # records[k].old
       /\ "_parent" \in DOMAIN e.annotations
       /\ e.annotations["_parent"].k = "arr"
       /\ \E a, b \in DOMAIN e.annotations["_parent"].items :
            /\ e.annotations["_parent"].items[a].id = records[k].new
            /\ e.annotations["_parent"].items[b].id # records[k].new
       /\ e.value["id"].k = "str"

(***************************************************************************)
(* C23: when the propagation of a rename old -> new has been done and no   *)
(* reference of an instance of the collection has the target old any more, *)
(* doing the same propagation once more changes no value of any element.   *)
(***************************************************************************)
\* no instance of the collection holds a reference to the identifier
NoReferenceTo(id) ==
  \A i \in DOMAIN elements :
     heap[elements[i]].kind = "instance" =>
       \A r \in AllRefs(heap[elements[i]]) : r.value.id # id

C23_PropagationIdempotent ==
  \A k \in DOMAIN records :
     NoReferenceTo(records[k].old) =>
       propagate(heap, elements, getFullName(records[k].old),
                 records[k].old, records[k].new) = heap

\* a propagation has set a reference of another instance to the new
\* identifier, and no instance holds a reference to the old one
C23_Witness ==
  \E k \in DOMAIN records :
     /\ records[k].new # records[k].old
     /\ NoReferenceTo(records[k].old)
     /\ \E i \in DOMAIN elements :
          /\ elements[i] # records[k].obj
          /\ heap[elements[i]].kind = "instance"
          /\ \E r \in AllRefs(heap[elements[i]]) :
               r.value.id = records[k].new /\ r.value.link = records[k].orig
     /\ \E i \in DOMAIN elements :
          /\ heap[elements[i]].kind = "instance"
          /\ \E r \in AllRefs(heap[elements[i]]) : r.value.id # records[k].new

(***************************************************************************)
(* C24: the callbacks of two nodes never interleave: at most one callback  *)
(* is between its name computation and its splice, and while it waits      *)
(* there no other callback has changed the collection or an element.       *)
(***************************************************************************)
C24_NoInterleaving ==
  /\ Cardinality(tasks) <= 1
  /\ \A t \in tasks :
       /\ t.seen.heap = heap
       /\ t.seen.elements = elements
       /\ t.node \notin resolved
       /\ \A k \in DOMAIN records : records[k].node \in resolved

\* the callback of a node waits at line 129 after the callbacks of two
\* other nodes have spliced their replacements in
C24_Witness ==
  /\ tasks # {}
  /\ Len(records) = 2

(***************************************************************************)
(* C25: a call on a collection whose dependency graph has no cycle comes   *)
(* to its end, and at the end every node of the graph has been evaluated:  *)
(* every instance whose idFields have a reference-marked field has been    *)
(* processed, and each after the nodes it depends on.  Stated as: every    *)
(* step of the call brings it nearer to its end (the stage of the call     *)
(* advances, or one more node is evaluated); the call is not in a failure  *)
(* nor stopped by a cycle; while nodes are left, one of them has all its   *)
(* dependencies evaluated; and at the return every node is resolved.       *)
(***************************************************************************)
\* every node has been evaluated, every instance with a reference-marked
\* identifier field was processed, and each after the nodes it depends on
AllResolved ==
  /\ resolved = DOMAIN graph
  /\ \A o \in instances0 :
       hasReferencedIdFields(IdFieldsOf(config, heap0[o].elemID.typeName)) =>
         \E k \in DOMAIN records : records[k].orig = o
  /\ \A k \in DOMAIN records : graph[records[k].node] \subseteq records[k].before

\* the stage of the call: before the graph, in the evaluation, after it
StageOf(st) == CASE st = "start" -> 0 [] st = "eval" -> 1 [] OTHER -> 2

C25_TerminatesResolved ==
  /\ [][ \/ StageOf(status') > StageOf(status)
         \/ /\ StageOf(status') = StageOf(status)
            /\ Cardinality(resolved') > Cardinality(resolved) ]_vars
  /\ [](Acyclic =>
          /\ status \in {"start", "eval", "done"}
          /\ (status = "eval" /\ resolved # DOMAIN graph) =>
                \E n \in DOMAIN graph \ resolved : graph[n] \subseteq resolved
          /\ Done => AllResolved)

(***************************************************************************)
(* C26: the replacement of a renamed instance has the adapter and the type *)
(* name of the original and its values and annotations (its references to  *)
(* itself apart), and differs from it in the instance name and the path     *)
(* only; the original object is in the collection no more, and its          *)
(* identifier is the one it had.                                            *)
(***************************************************************************)
C26_ReplacementFrame ==
  /\ [][ Len(records') = Len(records) + 1 =>
           LET r == records'[Len(records')]
           IN /\ heap'[r.obj].kind = "instance"
              /\ heap'[r.obj].elemID.adapter = heap[r.orig].elemID.adapter
              /\ heap'[r.obj].elemID.typeName = heap[r.orig].elemID.typeName
              /\ heap'[r.obj].elemID.idType = heap[r.orig].elemID.idType
              /\ BagOnlyRetargeted(heap[r.orig].value, heap'[r.obj].value, r.old, r.new)
              /\ BagOnlyRetargeted(heap[r.orig].annotations, heap'[r.obj].annotations,
                                   r.old, r.new)
              /\ heap'[r.orig].elemID = heap[r.orig].elemID
              /\ \A i \in DOMAIN elements' : elements'[i] # r.orig
       ]_vars
  /\ [](\A k \in DOMAIN records :
          /\ heap[records[k].orig].elemID = records[k].old
          /\ \A i \in DOMAIN elements : elements[i] # records[k].orig)

(***************************************************************************)
(* C27: when the elements of the collection given to the call have         *)
(* pairwise distinct full identifiers, the elements of the collection have *)
(* pairwise distinct full identifiers after every step and at the end.     *)
(***************************************************************************)
C27_UniqueIdentifiers ==
  (\A i, j \in DOMAIN elements0 :
      i # j => getFullName(heap0[elements0[i]].elemID)
                 # getFullName(heap0[elements0[j]].elemID))
  => \A i, j \in DOMAIN elements :
        i # j => getFullName(heap[elements[i]].elemID)
                   # getFullName(heap[elements[j]].elemID)

(***************************************************************************)
(* C28: an element of the collection that is not an instance is never      *)
(* replaced, moved to another index or mutated: it is at the index it had, *)
(* as it was, and the element that a splice replaces is an instance.       *)
(***************************************************************************)
C28_TypesUntouched ==
  /\ \A i \in DOMAIN elements0 :
       heap0[elements0[i]].kind # "instance" =>
         /\ i \in DOMAIN elements
         /\ elements[i] = elements0[i]
         /\ heap[elements[i]] = heap0[elements0[i]]
  /\ \A k \in DOMAIN records :
       /\ records[k].idx \in DOMAIN elements
       /\ records[k].at \in DOMAIN heap
       /\ heap[records[k].at].kind = "instance"

\* the call has returned after it renamed an instance that a type of the
\* collection holds a reference to
C28_Witness ==
  /\ Done
  /\ \E i \in DOMAIN elements : \E k \in DOMAIN records :
       /\ heap[elements[i]].kind # "instance"
       /\ records[k].new # records[k].old
       /\ \E r \in AllRefs(heap[elements[i]]) : r.value.id = records[k].old

(***************************************************************************)
(* C29: a reference is a leaf of the walk: func is called on it, and no    *)
(* call is made for anything under it, so that the element it refers to is *)
(* not entered; the calls of a walk are at most the nodes of the element,  *)
(* also when the element refers to itself, or to an element that refers    *)
(* back to it.                                                             *)
(***************************************************************************)
\* the place is under the place above
StrictlyUnder(place, above) ==
  Len(above) < Len(place) /\ SubSeq(place, 1, Len(above)) = above

C29_ReferenceIsLeaf ==
  /\ \A i \in DOMAIN visited :
       visited[i].value.kind = "reference" =>
         /\ \A j \in DOMAIN visited : ~StrictlyUnder(visited[j].addr, visited[i].addr)
         /\ \A j \in DOMAIN todo : ~StrictlyUnder(todo[j].addr, visited[i].addr)
  /\ Len(visited) <= Len(Nodes)
  /\ (walk = "returned" /\ \A i \in DOMAIN visited : visited[i].res = RECURSE) =>
       \A n \in DOMAIN Nodes :
          Nodes[n].value.kind = "reference" =>
            \E i \in DOMAIN visited : visited[i].addr = Nodes[n].addr

\* a walk with RECURSE at every node has returned; the element holds a
\* reference to itself and a reference to an instance that refers back to
\* it, and func was called on both
C29_Witness ==
  /\ walk = "returned"
  /\ \A i \in DOMAIN visited : visited[i].res = RECURSE
  /\ \E i, j \in DOMAIN visited :
       /\ visited[i].value = Reference("root")
       /\ visited[j].value = Reference("other")
       /\ resolvedValue(visited[i].value) = root
       /\ resolvedValue(resolvedValue(visited[j].value).value[1].val) = root

(***************************************************************************)
(* C30: at every splice the index found by the original full identifier of *)
(* the instance is an index of the collection (the instance was found),    *)
(* and the element at that index is the instance object that is renamed.   *)
(***************************************************************************)
C30_SpliceTarget ==
  \A k \in DOMAIN records :
     /\ records[k].idx # 0
     /\ records[k].idx \in DOMAIN elements
     /\ records[k].at = records[k].orig

====
